---- MODULE Spec2Model ----
(***************************************************************************)
(* MiniDB: the in-memory table store (minidb/table.py, minidb/database.py)  *)
(* and the execution engine (minidb/engine.py), driven by a caller that     *)
(* executes one statement after the other and keeps the last statement and  *)
(* the last result, as the read-eval-print loop of main.py does.            *)
(*                                                                         *)
(* Strings are sequences of one-character strings, so that str.lower() is  *)
(* computed character by character.  A Python dict is a sequence of         *)
(* key/value entries with distinct keys, in insertion order.                *)
(*                                                                         *)
(* Object identity.  A stored row is the dict object at position idx of the *)
(* _rows list of the table registered under key; rows are only appended,    *)
(* so (key, idx) names the object for its whole life.  A result list holds  *)
(* references: either to such a stored object, or to a dict that the call   *)
(* built itself and that nothing else refers to.                            *)
(***************************************************************************)
EXTENDS Integers, Sequences, FiniteSets

VARIABLES
    tables,   \* Database.tables: lower-cased name -> Table
    stmt,     \* the Statement of the last Engine.execute call
    result,   \* what that call returned or raised
    op,       \* the last step: "init", "execute" or "caller"
    inserted, \* history: per table key, the value lists of the inserts that succeeded
    repeated, \* history: the last execute call got the statement of the call before it
    input,    \* the text handed to parse(sql)
    scanned,  \* what tokenize(sql) returned or raised
    parsed,   \* what parse(sql) returned or raised
    pc,       \* where the parse(sql) call stands: "idle", "tokenize", "parse", "done"
    data,     \* SimpleDatabase.data
    transaction_data, \* SimpleDatabase._transaction_data
    file,     \* the file at SimpleDatabase.filepath
    call,     \* the last SimpleDatabase call: method, arguments, result
    hist,     \* history: the transaction last begun and how it ended
    buffer,   \* repl: the text of the lines read since the last statement
    pending,  \* history: the number of lines in the buffer
    session,  \* repl: "none", "running" or "ended"
    shown     \* repl: what was printed last

engineVars == <<tables, stmt, result, op, inserted, repeated>>

parseVars == <<input, scanned, parsed, pc>>

kvVars == <<data, transaction_data, file, call, hist>>

replVars == <<buffer, pending, session, shown>>

vars == <<engineVars, parseVars, kvVars, replVars>>

-----------------------------------------------------------------------------
(* Bounds of the model *)

\* rows stored in the whole Database
MaxRows == 2

\* the columns, values or names of a generated statement
MaxItems == 2

\* the length of a text generated character by character
MaxLen == 3

-----------------------------------------------------------------------------
(* Strings *)

UpperLetters ==
    <<"A","B","C","D","E","F","G","H","I","J","K","L","M",
      "N","O","P","Q","R","S","T","U","V","W","X","Y","Z">>

LowerLetters ==
    <<"a","b","c","d","e","f","g","h","i","j","k","l","m",
      "n","o","p","q","r","s","t","u","v","w","x","y","z">>

LowerChar(c) ==
    IF \E i \in DOMAIN UpperLetters : UpperLetters[i] = c
    THEN LowerLetters[CHOOSE i \in DOMAIN UpperLetters : UpperLetters[i] = c]
    ELSE c

\* str.lower()
Lower(s) == [i \in DOMAIN s |-> LowerChar(s[i])]

-----------------------------------------------------------------------------
(* Values and schema (minidb/types.py) *)

ColumnType == {"INT", "TEXT", "BOOL"}

IntValue(n) == [tag |-> "int", num |-> n, str |-> <<>>]
TextValue(s) == [tag |-> "text", num |-> 0, str |-> s]

ColumnDef(name, col_type) ==
    [name |-> name, col_type |-> col_type, nullable |-> TRUE, primary_key |-> FALSE]

-----------------------------------------------------------------------------
(* Python dict *)

DictHas(d, k) == \E i \in DOMAIN d : d[i].k = k

DictGet(d, k) == d[CHOOSE i \in DOMAIN d : d[i].k = k].v

\* d[k] = v: an existing key keeps its position, a new key goes last
DictSet(d, k, v) ==
    IF DictHas(d, k)
    THEN [i \in DOMAIN d |-> IF d[i].k = k THEN [k |-> k, v |-> v] ELSE d[i]]
    ELSE Append(d, [k |-> k, v |-> v])

DictKeys(d) == [i \in DOMAIN d |-> d[i].k]

-----------------------------------------------------------------------------
(* Outcomes of a call *)

None ==
    [kind |-> "None", exc |-> "", why |-> "", names |-> <<>>, nums |-> <<>>, rows |-> <<>>]

RowList(rs) ==
    [kind |-> "rows", exc |-> "", why |-> "", names |-> <<>>, nums |-> <<>>, rows |-> rs]

Raise(exc, why, names, nums) ==
    [kind |-> "raise", exc |-> exc, why |-> why, names |-> names, nums |-> nums, rows |-> <<>>]

\* a reference to the dict at position idx of the _rows of the table under key
StoredRow(key, idx) == [stored |-> TRUE, key |-> key, idx |-> idx, row |-> <<>>]

\* a reference to a dict nothing else refers to
OwnRow(d) == [stored |-> FALSE, key |-> <<>>, idx |-> 0, row |-> d]

\* Optional[List[str]]
NoList == [none |-> TRUE, list |-> <<>>]
SomeList(l) == [none |-> FALSE, list |-> l]

-----------------------------------------------------------------------------
(* Table (minidb/table.py) *)

Table(name, columns) == [name |-> name, columns |-> columns, rows |-> <<>>]

column_names(table) == [i \in DOMAIN table.columns |-> table.columns[i].name]

Min(a, b) == IF a <= b THEN a ELSE b

\* for col, val in zip(self.columns, values): row[col.name] = val
RECURSIVE ZipRow(_, _, _, _)
ZipRow(columns, values, i, row) ==
    IF i > Min(Len(columns), Len(values))
    THEN row
    ELSE ZipRow(columns, values, i + 1, DictSet(row, columns[i].name, values[i]))

\* mutant: the new row goes first
insert_row_prepend(table, values) ==
    IF Len(values) # Len(table.columns)
    THEN [out |-> Raise("ValueError", "count", <<>>, <<Len(table.columns), Len(values)>>),
          table |-> table]
    ELSE [out |-> None,
          table |-> [table EXCEPT !.rows = <<ZipRow(table.columns, values, 1, <<>>)>> \o @]]

\* mutant: no count check, zip stops at the shorter list
insert_row_unchecked(table, values) ==
    [out |-> None,
     table |-> [table EXCEPT !.rows = Append(@, ZipRow(table.columns, values, 1, <<>>))]]

\* mutant: the count is checked after the row is appended
insert_row_late_check(table, values) ==
    [out |-> IF Len(values) # Len(table.columns)
             THEN Raise("ValueError", "count", <<>>, <<Len(table.columns), Len(values)>>)
             ELSE None,
     table |-> [table EXCEPT !.rows = Append(@, ZipRow(table.columns, values, 1, <<>>))]]

\* mutant: a value must have the declared type of its column
insert_row_type_checked(table, values) ==
    IF Len(values) # Len(table.columns)
    THEN [out |-> Raise("ValueError", "count", <<>>, <<Len(table.columns), Len(values)>>),
          table |-> table]
    ELSE IF \E i \in DOMAIN values :
               \/ table.columns[i].col_type = "INT" /\ values[i].tag # "int"
               \/ table.columns[i].col_type = "TEXT" /\ values[i].tag # "text"
    THEN [out |-> Raise("TypeError", "type", <<>>, <<>>), table |-> table]
    ELSE [out |-> None,
          table |-> [table EXCEPT !.rows = Append(@, ZipRow(table.columns, values, 1, <<>>))]]

insert_row(table, values) ==
    IF Len(values) # Len(table.columns)
    THEN [out |-> Raise("ValueError", "count", <<>>, <<Len(table.columns), Len(values)>>),
          table |-> table]
    ELSE [out |-> None,
          table |-> [table EXCEPT !.rows = Append(@, ZipRow(table.columns, values, 1, <<>>))]]

\* iter(self._rows): the stored dict objects themselves, in list order.  The
\* Table named n is the one registered under Lower(n) (Database.create_table).
scan(table) == [i \in 1..Len(table.rows) |-> StoredRow(Lower(table.name), i)]

\* {col: row[col] for col in column_names}
RECURSIVE Project(_, _, _, _)
Project(row, cols, i, acc) ==
    IF i > Len(cols)
    THEN acc
    ELSE Project(row, cols, i + 1, DictSet(acc, cols[i], DictGet(row, cols[i])))

\* the requested names that some stored row has no entry for: row[col] raises
\* KeyError for the first of them
Absent(table, cols) ==
    SelectSeq(cols, LAMBDA c : \E i \in DOMAIN table.rows : ~DictHas(table.rows[i], c))

\* mutant: the error names the first missing column only
table_select_first_missing(table, cols) ==
    IF cols.none
    THEN RowList(scan(table))
    ELSE LET declared == {column_names(table)[i] : i \in DOMAIN table.columns}
             missing == SelectSeq(cols.list, LAMBDA c : c \notin declared)
         IN  IF missing # <<>>
             THEN Raise("KeyError", "unknown_columns", <<Head(missing)>>, <<>>)
             ELSE RowList([i \in 1..Len(table.rows) |->
                              OwnRow(Project(table.rows[i], cols.list, 1, <<>>))])

\* mutant: the projected rows are keyed in the order of the declared columns
table_select_declared_order(table, cols) ==
    IF cols.none
    THEN RowList(scan(table))
    ELSE LET declared == {column_names(table)[i] : i \in DOMAIN table.columns}
             missing == SelectSeq(cols.list, LAMBDA c : c \notin declared)
             wanted == SelectSeq(column_names(table),
                                 LAMBDA c : \E i \in DOMAIN cols.list : cols.list[i] = c)
         IN  IF missing # <<>>
             THEN Raise("KeyError", "unknown_columns", missing, <<>>)
             ELSE RowList([i \in 1..Len(table.rows) |->
                              OwnRow(Project(table.rows[i], wanted, 1, <<>>))])

\* mutant: a requested column matches a declared one whatever the letter case
table_select_any_case(table, cols) ==
    IF cols.none
    THEN RowList(scan(table))
    ELSE LET names == column_names(table)
             declared == {names[i] : i \in DOMAIN names}
             spelled(c) == IF \E d \in declared : Lower(d) = Lower(c)
                           THEN CHOOSE d \in declared : Lower(d) = Lower(c)
                           ELSE c
             wanted == [i \in DOMAIN cols.list |-> spelled(cols.list[i])]
             missing == SelectSeq(wanted, LAMBDA c : c \notin declared)
         IN  IF missing # <<>>
             THEN Raise("KeyError", "unknown_columns", missing, <<>>)
             ELSE RowList([i \in 1..Len(table.rows) |->
                              OwnRow(Project(table.rows[i], wanted, 1, <<>>))])

\* Table.select; cols is Optional[List[str]]
table_select(table, cols) ==
    IF cols.none
    THEN RowList(scan(table))
    ELSE LET declared == {column_names(table)[i] : i \in DOMAIN table.columns}
             missing == SelectSeq(cols.list, LAMBDA c : c \notin declared)
         IN  IF missing # <<>>
             THEN Raise("KeyError", "unknown_columns", missing, <<>>)
             ELSE IF Absent(table, cols.list) # <<>>
             THEN Raise("KeyError", "row_key", <<Head(Absent(table, cols.list))>>, <<>>)
             ELSE RowList([i \in 1..Len(table.rows) |->
                              OwnRow(Project(table.rows[i], cols.list, 1, <<>>))])

-----------------------------------------------------------------------------
(* Database (minidb/database.py): db is the tables dict *)

\* mutant: the collision check compares the name as given
create_table_exact_case(db, name, columns) ==
    LET key == Lower(name)
    IN  IF \E k \in DOMAIN db : db[k].name = name
        THEN [out |-> Raise("ValueError", "exists", <<name>>, <<>>), db |-> db]
        ELSE [out |-> None,
              db |-> [k \in DOMAIN db \cup {key} |->
                         IF k = key THEN Table(name, columns) ELSE db[k]]]

\* mutant: no collision check, the new table replaces the old one
create_table_replace(db, name, columns) ==
    LET key == Lower(name)
    IN  [out |-> None,
         db |-> [k \in DOMAIN db \cup {key} |->
                    IF k = key THEN Table(name, columns) ELSE db[k]]]

\* mutant: the Table is given the lower-cased name
create_table_lower_name(db, name, columns) ==
    LET key == Lower(name)
    IN  IF key \in DOMAIN db
        THEN [out |-> Raise("ValueError", "exists", <<name>>, <<>>), db |-> db]
        ELSE [out |-> None,
              db |-> [k \in DOMAIN db \cup {key} |->
                         IF k = key THEN Table(key, columns) ELSE db[k]]]

create_table(db, name, columns) ==
    LET key == Lower(name)
    IN  IF key \in DOMAIN db
        THEN [out |-> Raise("ValueError", "exists", <<name>>, <<>>), db |-> db]
        ELSE [out |-> None,
              db |-> [k \in DOMAIN db \cup {key} |->
                         IF k = key THEN Table(name, columns) ELSE db[k]]]

\* mutant: the lookup uses the name as given
get_table_exact_case(db, name) ==
    IF name \in DOMAIN db
    THEN [out |-> None, table |-> db[name]]
    ELSE [out |-> Raise("KeyError", "not_found", <<name>>, <<>>),
          table |-> Table(<<>>, <<>>)]

get_table(db, name) ==
    LET key == Lower(name)
    IN  IF key \in DOMAIN db
        THEN [out |-> None, table |-> db[key]]
        ELSE [out |-> Raise("KeyError", "not_found", <<name>>, <<>>),
              table |-> Table(<<>>, <<>>)]

\* insert_row changes the Table object that the dict holds under the key
insert(db, table_name, values) ==
    LET got == get_table(db, table_name)
    IN  IF got.out.kind = "raise"
        THEN [out |-> got.out, db |-> db]
        ELSE LET done == insert_row(got.table, values)
             IN  [out |-> done.out,
                  db |-> [db EXCEPT ![Lower(got.table.name)] = done.table]]

\* mutant: the scan consumes the rows it returns
select_consuming(db, table_name, columns) ==
    LET got == get_table(db, table_name)
    IN  IF got.out.kind = "raise"
        THEN [out |-> got.out, db |-> db]
        ELSE [out |-> table_select(got.table, SomeList(column_names(got.table))),
              db |-> [db EXCEPT ![Lower(got.table.name)].rows = <<>>]]

select(db, table_name, columns) ==
    LET got == get_table(db, table_name)
    IN  IF got.out.kind = "raise"
        THEN [out |-> got.out, db |-> db]
        ELSE [out |-> table_select(got.table, columns), db |-> db]

-----------------------------------------------------------------------------
(* Statements (minidb/parser.py) and the Engine (minidb/engine.py) *)

CreateTableStmt(name, columns) ==
    [kind |-> "CreateTableStmt", name |-> name, columns |-> columns,
     values |-> <<>>, select |-> NoList]

InsertStmt(table_name, values) ==
    [kind |-> "InsertStmt", name |-> table_name, columns |-> <<>>,
     values |-> values, select |-> NoList]

SelectStmt(table_name, columns) ==
    [kind |-> "SelectStmt", name |-> table_name, columns |-> <<>>,
     values |-> <<>>, select |-> columns]

NoStmt ==
    [kind |-> "", name |-> <<>>, columns |-> <<>>, values |-> <<>>, select |-> NoList]

exec_create_table(db, s) == create_table(db, s.name, s.columns)

exec_insert(db, s) == insert(db, s.name, s.values)

\* mutant: a Select that finds no row returns None
exec_select_none_when_empty(db, s) ==
    LET done == select(db, s.name, s.select)
    IN  IF done.out.kind = "rows" /\ done.out.rows = <<>>
        THEN [out |-> None, db |-> done.db]
        ELSE done

exec_select(db, s) == select(db, s.name, s.select)

\* repl: what is printed for a result that execute returned
printed(res) == IF res = None THEN "OK" ELSE "format_rows"

execute(db, s) ==
    IF s.kind = "CreateTableStmt" THEN exec_create_table(db, s)
    ELSE IF s.kind = "InsertStmt" THEN exec_insert(db, s)
    ELSE IF s.kind = "SelectStmt" THEN exec_select(db, s)
    ELSE [out |-> Raise("TypeError", "unsupported", <<>>, <<>>), db |-> db]

-----------------------------------------------------------------------------
(* Tokenizer (minidb/parser.py) *)

\* the text of a token whose text is None
NoneText == <<"None">>

Token(kind, text) == [kind |-> kind, text |-> text]

\* Token.upper
UpperChar(c) ==
    IF \E i \in DOMAIN LowerLetters : LowerLetters[i] = c
    THEN UpperLetters[CHOOSE i \in DOMAIN LowerLetters : LowerLetters[i] = c]
    ELSE c

Upper(s) == [i \in DOMAIN s |-> UpperChar(s[i])]

DigitChars == <<"0","1","2","3","4","5","6","7","8","9">>

IsSpace(c) == c \in {" ", "\t", "\n", "\r"}
IsDigit(c) == \E i \in DOMAIN DigitChars : DigitChars[i] = c
IsLetter(c) ==
    \/ \E i \in DOMAIN UpperLetters : UpperLetters[i] = c
    \/ \E i \in DOMAIN LowerLetters : LowerLetters[i] = c
IsIdentStart(c) == IsLetter(c) \/ c = "_"
IsIdentChar(c) == IsLetter(c) \/ IsDigit(c) \/ c = "_"

\* the end (exclusive) of the longest run of characters of one class from pos
RECURSIVE RunEnd(_, _, _)
RunEnd(sql, pos, class) ==
    IF pos <= Len(sql)
       /\ CASE class = "WS" -> IsSpace(sql[pos])
            [] class = "NUMBER" -> IsDigit(sql[pos])
            [] OTHER -> IsIdentChar(sql[pos])
    THEN RunEnd(sql, pos + 1, class)
    ELSE pos

\* the position of the first quote at or after pos, or 0
RECURSIVE NextQuote(_, _)
NextQuote(sql, pos) ==
    IF pos > Len(sql) THEN 0
    ELSE IF sql[pos] = "'" THEN pos
    ELSE NextQuote(sql, pos + 1)

Punctuation(c) ==
    CASE c = "(" -> "LPAREN"
      [] c = ")" -> "RPAREN"
      [] c = "," -> "COMMA"
      [] c = "*" -> "STAR"
      [] c = ";" -> "SEMICOLON"
      [] OTHER -> ""

\* a match object: lastgroup, group(0), end(), and group(2).  The groups are
\* numbered in the order of their opening parentheses, named ones included:
\* 1 WS, 2 NUMBER, 3 STRING, 4 the content of the quotes.  group(2) is the
\* text of NUMBER when NUMBER matched and None otherwise.
Matched(sql, pos, kind, end) ==
    [ok |-> TRUE, lastgroup |-> kind, group0 |-> SubSeq(sql, pos, end - 1), end |-> end,
     group2 |-> IF kind = "NUMBER" THEN SubSeq(sql, pos, end - 1) ELSE NoneText]

NoMatch == [ok |-> FALSE, lastgroup |-> "", group0 |-> <<>>, end |-> 0, group2 |-> NoneText]

\* _TOKEN_REGEX.match(sql, pos), pos counted from 1
TokenMatch(sql, pos) ==
    LET c == sql[pos]
    IN  IF IsSpace(c) THEN Matched(sql, pos, "WS", RunEnd(sql, pos, "WS"))
        ELSE IF IsDigit(c) THEN Matched(sql, pos, "NUMBER", RunEnd(sql, pos, "NUMBER"))
        ELSE IF c = "'"
        THEN IF NextQuote(sql, pos + 1) # 0
             THEN Matched(sql, pos, "STRING", NextQuote(sql, pos + 1) + 1)
             ELSE NoMatch
        ELSE IF IsIdentStart(c) THEN Matched(sql, pos, "IDENT", RunEnd(sql, pos, "IDENT"))
        ELSE IF Punctuation(c) # "" THEN Matched(sql, pos, Punctuation(c), pos + 1)
        ELSE NoMatch

\* what tokenize or parse raised: text is the text the message cites
Error(exc, why, text, at) == [exc |-> exc, why |-> why, text |-> text, at |-> at]

NoError == Error("", "", <<>>, 0)

RECURSIVE TokenizeFrom(_, _, _)
TokenizeFrom(sql, pos, tokens) ==
    IF pos > Len(sql)
    THEN [err |-> NoError, tokens |-> tokens]
    ELSE LET match == TokenMatch(sql, pos)
         IN  IF ~match.ok
             THEN [err |-> Error("SyntaxError", "unexpected_character", <<sql[pos]>>, pos - 1),
                   tokens |-> <<>>]
             ELSE IF match.lastgroup = "WS"
             THEN TokenizeFrom(sql, match.end, tokens)
             ELSE IF match.lastgroup = "STRING"
             THEN TokenizeFrom(sql, match.end, Append(tokens, Token("STRING", match.group2)))
             ELSE TokenizeFrom(sql, match.end,
                               Append(tokens, Token(match.lastgroup, match.group0)))

tokenize(sql) == TokenizeFrom(sql, 1, <<>>)

-----------------------------------------------------------------------------
(* Parser (minidb/parser.py): positions count from 1 *)

CREATE == <<"C","R","E","A","T","E">>
TABLE == <<"T","A","B","L","E">>
INSERT == <<"I","N","S","E","R","T">>
INTO == <<"I","N","T","O">>
VALUES == <<"V","A","L","U","E","S">>
SELECT == <<"S","E","L","E","C","T">>
FROM == <<"F","R","O","M">>
INT == <<"I","N","T">>
TEXT == <<"T","E","X","T">>
BOOL == <<"B","O","O","L">>

NoToken == Token("", <<>>)

\* the Value None
NoneValue == [tag |-> "none", num |-> 0, str |-> <<>>]

\* Parser._peek: the token at pos, or None
peek(tokens, pos) ==
    IF pos <= Len(tokens)
    THEN [none |-> FALSE, tok |-> tokens[pos]]
    ELSE [none |-> TRUE, tok |-> NoToken]

\* Parser._match; text_upper = NoneText stands for the default None
match(tokens, pos, kind, text_upper) ==
    LET p == peek(tokens, pos)
    IN  IF p.none
        THEN [err |-> Error("SyntaxError", "expected_got_end", <<>>, 0),
              pos |-> pos, tok |-> NoToken]
        ELSE IF p.tok.kind # kind
        THEN [err |-> Error("SyntaxError", "expected_kind", p.tok.text, 0),
              pos |-> pos, tok |-> NoToken]
        ELSE IF text_upper # NoneText /\ Upper(p.tok.text) # text_upper
        THEN [err |-> Error("SyntaxError", "expected_text", p.tok.text, 0),
              pos |-> pos, tok |-> NoToken]
        ELSE [err |-> NoError, pos |-> pos + 1, tok |-> p.tok]

\* Parser._match_keyword
match_keyword(tokens, pos, keyword) ==
    LET p == peek(tokens, pos)
    IN  IF p.none \/ p.tok.kind # "IDENT" \/ Upper(p.tok.text) # keyword
        THEN [err |-> Error("SyntaxError", "expected_keyword",
                            IF p.none THEN <<"E","O","F">> ELSE p.tok.text, 0),
              pos |-> pos, tok |-> NoToken]
        ELSE [err |-> NoError, pos |-> pos + 1, tok |-> p.tok]

\* Parser._optional (always called without text_upper)
optional(tokens, pos, kind) ==
    LET p == peek(tokens, pos)
    IN  IF p.none \/ p.tok.kind # kind
        THEN [found |-> FALSE, pos |-> pos]
        ELSE [found |-> TRUE, pos |-> pos + 1]

\* mutant: the keyword is looked up as spelled
from_sql_as_spelled(type_name) ==
    IF type_name = INT THEN [err |-> NoError, col_type |-> "INT"]
    ELSE IF type_name = TEXT THEN [err |-> NoError, col_type |-> "TEXT"]
    ELSE IF type_name = BOOL THEN [err |-> NoError, col_type |-> "BOOL"]
    ELSE [err |-> Error("ValueError", "unsupported_column_type", type_name, 0),
          col_type |-> ""]

\* ColumnType.from_sql (minidb/types.py)
from_sql(type_name) ==
    LET upper == Upper(type_name)
    IN  IF upper = INT THEN [err |-> NoError, col_type |-> "INT"]
        ELSE IF upper = TEXT THEN [err |-> NoError, col_type |-> "TEXT"]
        ELSE IF upper = BOOL THEN [err |-> NoError, col_type |-> "BOOL"]
        ELSE [err |-> Error("ValueError", "unsupported_column_type", type_name, 0),
              col_type |-> ""]

\* what a statement parser returns or raises
Parsed(pos, s) == [err |-> NoError, pos |-> pos, stmt |-> s]
Failed(err) == [err |-> err, pos |-> 0, stmt |-> NoStmt]

\* the column loop of _parse_create_table, entered at pos with columns so far
RECURSIVE CreateColumns(_, _, _)
CreateColumns(tokens, pos, columns) ==
    LET col_name_tok == match(tokens, pos, "IDENT", NoneText)
    IN  IF col_name_tok.err # NoError
        THEN [err |-> col_name_tok.err, pos |-> pos, columns |-> <<>>]
        ELSE
    LET type_tok == match(tokens, col_name_tok.pos, "IDENT", NoneText)
    IN  IF type_tok.err # NoError
        THEN [err |-> type_tok.err, pos |-> pos, columns |-> <<>>]
        ELSE
    LET col_type == from_sql(type_tok.tok.text)
    IN  IF col_type.err # NoError
        THEN [err |-> col_type.err, pos |-> pos, columns |-> <<>>]
        ELSE
    LET added == Append(columns, ColumnDef(col_name_tok.tok.text, col_type.col_type))
        comma == optional(tokens, type_tok.pos, "COMMA")
    IN  IF comma.found
        THEN CreateColumns(tokens, comma.pos, added)
        ELSE [err |-> NoError, pos |-> comma.pos, columns |-> added]

\* Parser._parse_create_table
parse_create_table(tokens, pos) ==
    LET kw1 == match_keyword(tokens, pos, CREATE)
    IN  IF kw1.err # NoError THEN Failed(kw1.err) ELSE
    LET kw2 == match_keyword(tokens, kw1.pos, TABLE)
    IN  IF kw2.err # NoError THEN Failed(kw2.err) ELSE
    LET name_tok == match(tokens, kw2.pos, "IDENT", NoneText)
    IN  IF name_tok.err # NoError THEN Failed(name_tok.err) ELSE
    LET lparen == match(tokens, name_tok.pos, "LPAREN", NoneText)
    IN  IF lparen.err # NoError THEN Failed(lparen.err) ELSE
    LET cols == CreateColumns(tokens, lparen.pos, <<>>)
    IN  IF cols.err # NoError THEN Failed(cols.err) ELSE
    LET rparen == match(tokens, cols.pos, "RPAREN", NoneText)
    IN  IF rparen.err # NoError THEN Failed(rparen.err) ELSE
    Parsed(optional(tokens, rparen.pos, "SEMICOLON").pos,
           CreateTableStmt(name_tok.tok.text, cols.columns))

DigitValue(c) == (CHOOSE i \in DOMAIN DigitChars : DigitChars[i] = c) - 1

\* int(text) of a run of decimal digits
RECURSIVE IntOf(_, _, _)
IntOf(text, i, acc) ==
    IF i > Len(text) THEN acc ELSE IntOf(text, i + 1, 10 * acc + DigitValue(text[i]))

\* values.append(tok.text) for a STRING token
TextOf(text) == IF text = NoneText THEN NoneValue ELSE TextValue(text)

\* the value loop of _parse_insert
RECURSIVE InsertValues(_, _, _)
InsertValues(tokens, pos, values) ==
    LET p == peek(tokens, pos)
    IN  IF p.none
        THEN [err |-> Error("SyntaxError", "end_in_values", <<>>, 0),
              pos |-> pos, values |-> <<>>]
        ELSE IF p.tok.kind \notin {"NUMBER", "STRING"}
        THEN [err |-> Error("SyntaxError", "expected_literal", p.tok.text, 0),
              pos |-> pos, values |-> <<>>]
        ELSE
    LET added == Append(values, IF p.tok.kind = "NUMBER"
                                THEN IntValue(IntOf(p.tok.text, 1, 0))
                                ELSE TextOf(p.tok.text))
        comma == optional(tokens, pos + 1, "COMMA")
    IN  IF comma.found
        THEN InsertValues(tokens, comma.pos, added)
        ELSE [err |-> NoError, pos |-> comma.pos, values |-> added]

\* Parser._parse_insert
parse_insert(tokens, pos) ==
    LET kw1 == match_keyword(tokens, pos, INSERT)
    IN  IF kw1.err # NoError THEN Failed(kw1.err) ELSE
    LET kw2 == match_keyword(tokens, kw1.pos, INTO)
    IN  IF kw2.err # NoError THEN Failed(kw2.err) ELSE
    LET table_tok == match(tokens, kw2.pos, "IDENT", NoneText)
    IN  IF table_tok.err # NoError THEN Failed(table_tok.err) ELSE
    LET kw3 == match_keyword(tokens, table_tok.pos, VALUES)
    IN  IF kw3.err # NoError THEN Failed(kw3.err) ELSE
    LET lparen == match(tokens, kw3.pos, "LPAREN", NoneText)
    IN  IF lparen.err # NoError THEN Failed(lparen.err) ELSE
    LET vals == InsertValues(tokens, lparen.pos, <<>>)
    IN  IF vals.err # NoError THEN Failed(vals.err) ELSE
    LET rparen == match(tokens, vals.pos, "RPAREN", NoneText)
    IN  IF rparen.err # NoError THEN Failed(rparen.err) ELSE
    Parsed(optional(tokens, rparen.pos, "SEMICOLON").pos,
           InsertStmt(table_tok.tok.text, vals.values))

\* the name loop of _parse_select
RECURSIVE SelectColumns(_, _, _)
SelectColumns(tokens, pos, cols) ==
    LET ident_tok == match(tokens, pos, "IDENT", NoneText)
    IN  IF ident_tok.err # NoError
        THEN [err |-> ident_tok.err, pos |-> pos, cols |-> <<>>]
        ELSE
    LET added == Append(cols, ident_tok.tok.text)
        comma == optional(tokens, ident_tok.pos, "COMMA")
    IN  IF comma.found
        THEN SelectColumns(tokens, comma.pos, added)
        ELSE [err |-> NoError, pos |-> comma.pos, cols |-> added]

\* Parser._parse_select
parse_select(tokens, pos) ==
    LET kw1 == match_keyword(tokens, pos, SELECT)
    IN  IF kw1.err # NoError THEN Failed(kw1.err) ELSE
    LET p == peek(tokens, kw1.pos)
    IN  IF p.none THEN Failed(Error("SyntaxError", "end_after_select", <<>>, 0)) ELSE
    LET named == SelectColumns(tokens, kw1.pos, <<>>)
        star == p.tok.kind = "STAR"
    IN  IF ~star /\ named.err # NoError THEN Failed(named.err) ELSE
    LET columns == IF star THEN NoList ELSE SomeList(named.cols)
        kw2 == match_keyword(tokens, IF star THEN kw1.pos + 1 ELSE named.pos, FROM)
    IN  IF kw2.err # NoError THEN Failed(kw2.err) ELSE
    LET table_tok == match(tokens, kw2.pos, "IDENT", NoneText)
    IN  IF table_tok.err # NoError THEN Failed(table_tok.err) ELSE
    Parsed(optional(tokens, table_tok.pos, "SEMICOLON").pos,
           SelectStmt(table_tok.tok.text, columns))

\* Parser.parse_statement, of a Parser at position 1
parse_statement(tokens) ==
    LET p == peek(tokens, 1)
    IN  IF p.none THEN Failed(Error("SyntaxError", "empty_input", <<>>, 0))
        ELSE IF p.tok.kind = "IDENT" /\ Upper(p.tok.text) = CREATE
        THEN parse_create_table(tokens, 1)
        ELSE IF p.tok.kind = "IDENT" /\ Upper(p.tok.text) = INSERT
        THEN parse_insert(tokens, 1)
        ELSE IF p.tok.kind = "IDENT" /\ Upper(p.tok.text) = SELECT
        THEN parse_select(tokens, 1)
        ELSE Failed(Error("SyntaxError", "unknown_statement", p.tok.text, 0))

\* mutant: parse returns the statement whatever follows it
parse_tokens_first_statement(tokens) == parse_statement(tokens)

\* the part of parse after tokenize
parse_tokens(tokens) ==
    LET got == parse_statement(tokens)
    IN  IF got.err # NoError THEN got
        ELSE IF ~peek(tokens, got.pos).none
        THEN Failed(Error("SyntaxError", "trailing_token", peek(tokens, got.pos).tok.text, 0))
        ELSE got

\* parse
parse(sql) ==
    LET lexed == tokenize(sql)
    IN  IF lexed.err # NoError THEN Failed(lexed.err) ELSE parse_tokens(lexed.tokens)

-----------------------------------------------------------------------------
(* SimpleDatabase (database.py): a key-value store kept in a JSON file *)

\* Python objects given as keys and values
PyNone == [tag |-> "None", num |-> 0, str |-> <<>>, items |-> <<>>]
PyInt(n) == [tag |-> "int", num |-> n, str |-> <<>>, items |-> <<>>]
PyStr(s) == [tag |-> "str", num |-> 0, str |-> s, items |-> <<>>]
PyList(xs) == [tag |-> "list", num |-> 0, str |-> <<>>, items |-> xs]
PyTuple(xs) == [tag |-> "tuple", num |-> 0, str |-> <<>>, items |-> xs]
PySet(xs) == [tag |-> "set", num |-> 0, str |-> <<>>, items |-> xs]

\* JSON values of a document
JsonNull == [json |-> "null", num |-> 0, str |-> <<>>, items |-> <<>>]
JsonBool(n) == [json |-> "bool", num |-> n, str |-> <<>>, items |-> <<>>]
JsonNumber(n) == [json |-> "number", num |-> n, str |-> <<>>, items |-> <<>>]
JsonString(s) == [json |-> "string", num |-> 0, str |-> s, items |-> <<>>]
JsonArray(xs) == [json |-> "array", num |-> 0, str |-> <<>>, items |-> xs]

\* json.dumps(value): a list and a tuple both become an array, a set is
\* refused with a TypeError
dumps(value) ==
    CASE value.tag = "None" -> [err |-> "", doc |-> JsonNull]
      [] value.tag = "bool" -> [err |-> "", doc |-> JsonBool(value.num)]
      [] value.tag = "int" -> [err |-> "", doc |-> JsonNumber(value.num)]
      [] value.tag = "str" -> [err |-> "", doc |-> JsonString(value.str)]
      [] value.tag \in {"list", "tuple"} -> [err |-> "", doc |-> JsonArray(value.items)]
      [] OTHER -> [err |-> "TypeError", doc |-> JsonNull]

\* json.loads of a JSON value: an array becomes a list
loads(doc) ==
    CASE doc.json = "null" -> PyNone
      [] doc.json = "bool" -> [tag |-> "bool", num |-> doc.num, str |-> <<>>, items |-> <<>>]
      [] doc.json = "number" -> PyInt(doc.num)
      [] doc.json = "string" -> PyStr(doc.str)
      [] doc.json = "array" -> PyList(doc.items)

\* the file at filepath: absent, not JSON, or a JSON object
NoFile == [exists |-> FALSE, corrupt |-> FALSE, doc |-> <<>>]
CorruptFile == [exists |-> TRUE, corrupt |-> TRUE, doc |-> <<>>]
JsonFile(doc) == [exists |-> TRUE, corrupt |-> FALSE, doc |-> doc]

\* json.dump(self.data, f): the keys of data are strings
dump(d) == [i \in DOMAIN d |-> [k |-> d[i].k.str, v |-> dumps(d[i].v).doc]]

\* SimpleDatabase._load: the data of an instance opened on the file
load(f) ==
    IF f.exists /\ ~f.corrupt
    THEN [i \in DOMAIN f.doc |-> [k |-> PyStr(f.doc[i].k), v |-> loads(f.doc[i].v)]]
    ELSE <<>>

\* SimpleDatabase._save: the file after it
save(d) == JsonFile(dump(d))

\* del d[k]
DictDel(d, k) ==
    LET i == CHOOSE j \in DOMAIN d : d[j].k = k
    IN  SubSeq(d, 1, i - 1) \o SubSeq(d, i + 1, Len(d))

\* self._transaction_data: None or the snapshot
NoSnapshot == [none |-> TRUE, data |-> <<>>]
Snapshot(d) == [none |-> FALSE, data |-> d]

\* what a method returned or raised
Return(value) == [raised |-> "", value |-> value]
Raised(exc) == [raised |-> exc, value |-> PyNone]
PyBool(b) == [tag |-> "bool", num |-> IF b THEN 1 ELSE 0, str |-> <<>>, items |-> <<>>]

\* an instance and its file: self.data, self._transaction_data, the file
Self(d, t, f) == [data |-> d, transaction_data |-> t, file |-> f]

\* SimpleDatabase(filepath)
new(f) == Self(load(f), NoSnapshot, f)

\* mutant: the value is stored before it is tested
set_store_first(self, key, value) ==
    IF key.tag # "str"
    THEN [self |-> self, ret |-> Raised("ValueError")]
    ELSE LET d == DictSet(self.data, key, value)
         IN  IF dumps(value).err # ""
             THEN [self |-> Self(d, self.transaction_data, self.file),
                   ret |-> Raised("ValueError")]
             ELSE [self |-> Self(d, self.transaction_data, save(d)), ret |-> Return(PyNone)]

\* SimpleDatabase.set
set(self, key, value) ==
    IF key.tag # "str"
    THEN [self |-> self, ret |-> Raised("ValueError")]
    ELSE IF dumps(value).err # ""
    THEN [self |-> self, ret |-> Raised("ValueError")]
    ELSE LET d == DictSet(self.data, key, value)
         IN  [self |-> Self(d, self.transaction_data, save(d)), ret |-> Return(PyNone)]

\* SimpleDatabase.get
get(self, key, default) ==
    [self |-> self,
     ret |-> Return(IF DictHas(self.data, key) THEN DictGet(self.data, key) ELSE default)]

\* mutant: delete reports True whether or not the key was there
delete_always_true(self, key) ==
    IF DictHas(self.data, key)
    THEN LET d == DictDel(self.data, key)
         IN  [self |-> Self(d, self.transaction_data, save(d)), ret |-> Return(PyBool(TRUE))]
    ELSE [self |-> self, ret |-> Return(PyBool(TRUE))]

\* SimpleDatabase.delete
delete(self, key) ==
    IF DictHas(self.data, key)
    THEN LET d == DictDel(self.data, key)
         IN  [self |-> Self(d, self.transaction_data, save(d)), ret |-> Return(PyBool(TRUE))]
    ELSE [self |-> self, ret |-> Return(PyBool(FALSE))]

\* SimpleDatabase.exists
exists(self, key) == [self |-> self, ret |-> Return(PyBool(DictHas(self.data, key)))]

\* SimpleDatabase.clear
clear(self) == [self |-> Self(<<>>, self.transaction_data, save(<<>>)), ret |-> Return(PyNone)]

\* SimpleDatabase.size
size(self) == [self |-> self, ret |-> Return(PyInt(Len(self.data)))]

\* mutant: a snapshot that is there already is kept
begin_transaction_keeps_first(self) ==
    IF self.transaction_data.none
    THEN [self |-> Self(self.data, Snapshot(self.data), self.file), ret |-> Return(PyNone)]
    ELSE [self |-> self, ret |-> Return(PyNone)]

\* SimpleDatabase.begin_transaction: the snapshot is a copy of the dict; it
\* holds the same value objects, and no method changes a value object
begin_transaction(self) ==
    [self |-> Self(self.data, Snapshot(self.data), self.file), ret |-> Return(PyNone)]

\* mutant: commit saves and leaves the snapshot in place
commit_keeps_snapshot(self) ==
    IF ~self.transaction_data.none
    THEN [self |-> Self(self.data, self.transaction_data, save(self.data)),
          ret |-> Return(PyNone)]
    ELSE [self |-> self, ret |-> Return(PyNone)]

\* SimpleDatabase.commit
commit(self) ==
    IF ~self.transaction_data.none
    THEN [self |-> Self(self.data, NoSnapshot, save(self.data)), ret |-> Return(PyNone)]
    ELSE [self |-> self, ret |-> Return(PyNone)]

\* mutant: rollback restores the dict and leaves the file as it is
rollback_no_save(self) ==
    IF ~self.transaction_data.none
    THEN [self |-> Self(self.transaction_data.data, NoSnapshot, self.file),
          ret |-> Return(PyNone)]
    ELSE [self |-> self, ret |-> Return(PyNone)]

\* SimpleDatabase.rollback
rollback(self) ==
    IF ~self.transaction_data.none
    THEN LET d == self.transaction_data.data
         IN  [self |-> Self(d, NoSnapshot, save(d)), ret |-> Return(PyNone)]
    ELSE [self |-> self, ret |-> Return(PyNone)]

-----------------------------------------------------------------------------
(* The statements the caller executes *)

TableNames == {<<"t">>, <<"T">>, <<"u">>}

ColA == ColumnDef(<<"a">>, "INT")
ColB == ColumnDef(<<"b">>, "TEXT")
ColA2 == ColumnDef(<<"a">>, "TEXT")

\* CreateTableStmt.columns, as for CREATE TABLE n (a INT) / (a INT, b TEXT) /
\* (a INT, a TEXT)
\* ColumnDef("a", ColumnType.INT, nullable=False, primary_key=True)
ColKey == [ColA EXCEPT !.nullable = FALSE, !.primary_key = TRUE]

ColumnLists == {<<ColKey>>, <<ColA, ColB>>, <<ColA, ColA2>>}

One == IntValue(1)
Ex == TextValue(<<"x">>)

Values == {One, Ex}

\* InsertStmt.values: [1] / ['x'] / [1, 'x'] / ['x', 1]
ValueLists == {<<One>>, <<Ex>>, <<One, Ex>>, <<Ex, One>>}

\* SelectStmt.columns, as for SELECT a / b / b, a / a, a / A, b FROM n
SelectLists ==
    {<<<<"a">>>>, <<<<"b">>>>, <<<<"b">>, <<"a">>>>, <<<<"a">>, <<"a">>>>,
     <<<<"A">>, <<"b">>>>}

CreateStmts == {CreateTableStmt(n, c) : n \in TableNames, c \in ColumnLists}

InsertStmts == {InsertStmt(n, v) : n \in TableNames, v \in ValueLists}

SelectStmts ==
    {SelectStmt(n, c) : n \in TableNames,
                        c \in {NoList} \cup {SomeList(l) : l \in SelectLists}}

TotalRows(db) ==
    LET RECURSIVE Sum(_)
        Sum(K) == IF K = {} THEN 0
                  ELSE LET k == CHOOSE x \in K : TRUE
                       IN  Len(db[k].rows) + Sum(K \ {k})
    IN  Sum(DOMAIN db)

-----------------------------------------------------------------------------
(* The texts handed to parse *)

\* the words of a text, joined by single spaces
RECURSIVE Join(_)
Join(words) ==
    IF words = <<>> THEN <<>>
    ELSE IF Len(words) = 1 THEN words[1]
    ELSE words[1] \o <<" ">> \o Join(Tail(words))

\* the words put between a first and a last one, separated by commas
RECURSIVE Listed(_)
Listed(items) ==
    IF Len(items) = 1 THEN items[1]
    ELSE items[1] \o <<<<",">>>> \o Listed(Tail(items))

SeqsUpTo(S, n) == UNION {[1..k -> S] : k \in 1..n}

FLOAT == <<"F","L","O","A","T">>

ParseTableNames == {<<"t">>, <<"T","b">>}
ParseColumnNames == {<<"a">>, <<"B","_","2">>}
TypeKeywords == {INT, Lower(TEXT), <<"B","o","o","l">>}
Literals == {<<"1">>, <<"4","2">>, <<"'","x","'">>}

Declarations == {<<n, k>> : n \in ParseColumnNames, k \in TypeKeywords}

Semicolons == {<<>>, <<<<";">>>>}

CreateTexts ==
    {<<CREATE, TABLE, n, <<"(">>>> \o Listed(ds) \o <<<<")">>>> \o semi :
        n \in {<<"t">>}, ds \in SeqsUpTo(Declarations, MaxItems), semi \in Semicolons}

InsertTexts ==
    {<<Lower(INSERT), INTO, n, VALUES, <<"(">>>> \o Listed(vs) \o <<<<")">>>> \o semi :
        n \in ParseTableNames,
        vs \in SeqsUpTo({<<v>> : v \in Literals}, MaxItems), semi \in Semicolons}

SelectTexts ==
    {<<SELECT>> \o cs \o <<FROM, n>> \o semi :
        n \in ParseTableNames,
        cs \in {<<<<"*">>>>} \cup {Listed(ns) : ns \in SeqsUpTo({<<c>> : c \in ParseColumnNames}, MaxItems)},
        semi \in Semicolons}

\* statements to edit
BaseTexts ==
    { <<CREATE, TABLE, <<"t">>, <<"(">>, <<"a">>, INT, <<")">>>>,
      <<CREATE, TABLE, <<"t">>, <<"(">>, <<"a">>, INT, <<",">>, <<"b">>, Lower(TEXT), <<")">>, <<";">>>>,
      <<CREATE, TABLE, <<"t">>, <<"(">>, <<")">>>>,
      <<INSERT, INTO, <<"t">>, VALUES, <<"(">>, <<"1">>, <<",">>, <<"'","x","'">>, <<")">>>>,
      <<SELECT, <<"*">>, FROM, <<"t">>>>,
      <<SELECT, <<"a">>, <<",">>, <<"b">>, FROM, <<"t">>, <<";">>>> }

Lexemes ==
    { CREATE, TABLE, INSERT, INTO, VALUES, SELECT, FROM, INT, Lower(TEXT), FLOAT,
      <<"t">>, <<"a">>, <<"1">>, <<"'","x","'">>,
      <<"(">>, <<")">>, <<",">>, <<"*">>, <<";">> }

\* words with one word put in, replaced or left out
OneEdit(words) ==
    LET n == Len(words)
    IN  {SubSeq(words, 1, i) \o <<w>> \o SubSeq(words, i + 1, n) : i \in 0..n, w \in Lexemes}
        \cup {SubSeq(words, 1, i - 1) \o <<w>> \o SubSeq(words, i + 1, n) : i \in 1..n, w \in Lexemes}
        \cup {SubSeq(words, 1, i - 1) \o SubSeq(words, i + 1, n) : i \in 1..n}

EditedTexts == UNION {OneEdit(b) : b \in BaseTexts}

\* one statement after the other
TwoStatements == {b \o c : b \in BaseTexts, c \in BaseTexts}

Alphabet == {"a", "1", "'", " ", ";", "?"}

\* every text of up to MaxLen characters of Alphabet
Strings == UNION {[1..k -> Alphabet] : k \in 0..MaxLen}

SqlInputs ==
    {Join(ws) : ws \in CreateTexts \cup InsertTexts \cup SelectTexts
                       \cup BaseTexts \cup EditedTexts \cup TwoStatements}
    \cup Strings

-----------------------------------------------------------------------------
(* The state machine *)

\* engine = Engine(Database())
EngineInit ==
    /\ tables = << >>
    /\ stmt = NoStmt
    /\ result = None
    /\ op = "init"
    /\ inserted = << >>
    /\ repeated = FALSE

NotScanned == [err |-> NoError, tokens |-> <<>>]

NotParsed == Failed(NoError)

\* no parse(sql) call is under way
ParseIdle ==
    /\ input = << >>
    /\ scanned = NotScanned
    /\ parsed = NotParsed
    /\ pc = "idle"

\* a SimpleDatabase call: its method, arguments and result
Call(method, key, value, ret) == [op |-> method, key |-> key, value |-> value, ret |-> ret]

NoCall == Call("init", PyNone, PyNone, Return(PyNone))

\* no transaction has been begun
NoHist ==
    [state |-> "none", closing |-> FALSE, changed |-> FALSE, nested |-> FALSE,
     data |-> <<>>, loaded |-> <<>>, undone |-> <<>>]

\* no SimpleDatabase is in use
KVIdle ==
    /\ file = NoFile
    /\ data = <<>>
    /\ transaction_data = NoSnapshot
    /\ call = NoCall
    /\ hist = NoHist

\* what the repl printed: the banner, OK, the formatted rows, or Error: ...
Shown(kind, exc) == [kind |-> kind, exc |-> exc]

\* no repl is running
ReplIdle ==
    /\ buffer = <<>>
    /\ pending = 0
    /\ session = "none"
    /\ shown = Shown("", "")

Init == EngineInit /\ ParseIdle /\ KVIdle /\ ReplIdle

\* the history after executing s with outcome done
Inserted(s, done) ==
    IF done.out.kind # "None"
    THEN inserted
    ELSE IF s.kind = "CreateTableStmt"
    THEN [k \in DOMAIN inserted \cup {Lower(s.name)} |->
             IF k = Lower(s.name) THEN <<>> ELSE inserted[k]]
    ELSE [inserted EXCEPT ![Lower(s.name)] = Append(@, s.values)]

\* result = engine.execute(stmt)
Execute(s) ==
    LET done == execute(tables, s)
    IN  /\ TotalRows(done.db) <= MaxRows
        /\ tables' = done.db
        /\ stmt' = s
        /\ result' = done.out
        /\ op' = "execute"
        /\ inserted' = Inserted(s, done)
        /\ repeated' = (op = "execute" /\ stmt = s)
        /\ UNCHANGED <<parseVars, kvVars, replVars>>

ExecuteCreateTable == \E s \in CreateStmts : Execute(s)

ExecuteInsert == \E s \in InsertStmts : Execute(s)

ExecuteSelect == \E s \in SelectStmts : Execute(s)

Next == ExecuteCreateTable \/ ExecuteInsert \/ ExecuteSelect

Spec == Init /\ [][Next]_vars

\* The caller assigns to an entry of a row of the list it got from execute:
\* result[j]["a"] = 'x'.  A stored dict changes in the table that holds it.
CallerSetsRowEntry ==
    /\ result.kind = "rows"
    /\ \E j \in DOMAIN result.rows, k \in {<<"a">>}, v \in {Ex} :
          LET ref == result.rows[j]
          IN  IF ref.stored
              THEN /\ tables' = [tables EXCEPT ![ref.key].rows[ref.idx] = DictSet(@, k, v)]
                   /\ result' = result
              ELSE /\ tables' = tables
                   /\ result' = [result EXCEPT !.rows[j].row = DictSet(@, k, v)]
    /\ op' = "caller"
    /\ UNCHANGED <<stmt, inserted, repeated>>
    /\ UNCHANGED <<parseVars, kvVars, replVars>>

NextCaller == Next \/ CallerSetsRowEntry

SpecCaller == Init /\ [][NextCaller]_vars

\* The caller appends a column to the list of the CreateTableStmt it just had
\* executed: stmt.columns.append(ColumnDef("b", TEXT)).  create_table stored
\* that list object in the Table, so the created table's columns change too.
CallerChangesColumns ==
    /\ op = "execute"
    /\ stmt.kind = "CreateTableStmt"
    /\ stmt' = [stmt EXCEPT !.columns = Append(@, ColB)]
    /\ tables' = IF result = None
                 THEN [tables EXCEPT ![Lower(stmt.name)].columns = Append(@, ColB)]
                 ELSE tables
    /\ op' = "caller"
    /\ UNCHANGED <<result, inserted, repeated>>
    /\ UNCHANGED <<parseVars, kvVars, replVars>>

NextOwner == Next \/ CallerChangesColumns

SpecOwner == Init /\ [][NextOwner]_vars

\* parse(sql) is called with one of the texts
InitParse ==
    /\ EngineInit
    /\ KVIdle
    /\ ReplIdle
    /\ input \in SqlInputs
    /\ scanned = NotScanned
    /\ parsed = NotParsed
    /\ pc = "tokenize"

\* tokens = tokenize(sql): an error of tokenize is the error of parse
Tokenize ==
    /\ pc = "tokenize"
    /\ scanned' = tokenize(input)
    /\ parsed' = IF scanned'.err # NoError THEN Failed(scanned'.err) ELSE parsed
    /\ pc' = IF scanned'.err # NoError THEN "done" ELSE "parse"
    /\ UNCHANGED <<input, engineVars, kvVars, replVars>>

\* the rest of parse: Parser(tokens).parse_statement() and the check for more tokens
Parse ==
    /\ pc = "parse"
    /\ parsed' = parse_tokens(scanned.tokens)
    /\ pc' = "done"
    /\ UNCHANGED <<input, scanned, engineVars, kvVars, replVars>>

NextParse == Tokenize \/ Parse

SpecParse == InitParse /\ [][NextParse]_vars

\* the keys and values given to the SimpleDatabase
KVKeys == {PyStr(<<"a">>), PyStr(<<"b">>)}

BadKeys == {PyInt(1)}

KVValues == {PyInt(1), PyTuple(<<1>>), PySet(<<1>>)}

\* db = SimpleDatabase(filepath), on no file or on a file that is not JSON
InitKV ==
    /\ EngineInit
    /\ ParseIdle
    /\ ReplIdle
    /\ file \in {NoFile, CorruptFile}
    /\ data = new(file).data
    /\ transaction_data = new(file).transaction_data
    /\ call = NoCall
    /\ hist = NoHist

\* the history after the call of method
Hist(method) ==
    IF method = "begin_transaction"
    THEN [state |-> "open", closing |-> FALSE, changed |-> FALSE,
          nested |-> (hist.state = "open" /\ data # hist.data),
          data |-> data, loaded |-> load(file), undone |-> <<>>]
    ELSE IF method \in {"commit", "rollback"} /\ hist.state = "open"
    THEN [state |-> IF method = "commit" THEN "committed" ELSE "rolled_back",
          closing |-> TRUE, changed |-> data # hist.data, nested |-> hist.nested,
          data |-> hist.data, loaded |-> hist.loaded, undone |-> data]
    ELSE IF method = "open"
    THEN NoHist
    ELSE IF hist.state = "open"
    THEN hist
    ELSE [state |-> hist.state, closing |-> FALSE, changed |-> hist.changed,
          nested |-> FALSE, data |-> <<>>, loaded |-> <<>>, undone |-> <<>>]

\* a call of a method with outcome done
Do(method, key, value, done) ==
    /\ data' = done.self.data
    /\ transaction_data' = done.self.transaction_data
    /\ file' = done.self.file
    /\ call' = Call(method, key, value, done.ret)
    /\ hist' = Hist(method)
    /\ UNCHANGED <<engineVars, parseVars, replVars>>

This == Self(data, transaction_data, file)

Set ==
    \E key \in KVKeys \cup BadKeys, value \in KVValues :
       Do("set", key, value, set(This, key, value))

Get == \E key \in KVKeys : Do("get", key, PyNone, get(This, key, PyNone))

Delete == \E key \in KVKeys : Do("delete", key, PyNone, delete(This, key))

Exists == \E key \in KVKeys : Do("exists", key, PyNone, exists(This, key))

Clear == Do("clear", PyNone, PyNone, clear(This))

Size == Do("size", PyNone, PyNone, size(This))

BeginTransaction == Do("begin_transaction", PyNone, PyNone, begin_transaction(This))

Commit == Do("commit", PyNone, PyNone, commit(This))

Rollback == Do("rollback", PyNone, PyNone, rollback(This))

\* db = SimpleDatabase(filepath) again: a new instance on the same file
Open == Do("open", PyNone, PyNone, [self |-> new(file), ret |-> Return(PyNone)])

NextKV ==
    \/ Set \/ Get \/ Delete \/ Exists \/ Clear \/ Size
    \/ BeginTransaction \/ Commit \/ Rollback \/ Open

SpecKV == InitKV /\ [][NextKV]_vars

-----------------------------------------------------------------------------
(* The read-eval-print loop (main.py) *)

MaxPending == 2

\* str.strip() of a text whose only whitespace is the space
RECURSIVE Strip(_)
Strip(s) ==
    IF s = <<>> THEN s
    ELSE IF Head(s) = " " THEN Strip(Tail(s))
    ELSE IF s[Len(s)] = " " THEN Strip(SubSeq(s, 1, Len(s) - 1))
    ELSE s

\* the lines typed at the prompt
ReplLines ==
    { Join(<<CREATE, TABLE, <<"t">>, <<"(">>, <<"a">>, INT, <<")">>, <<";">>>>),
      Join(<<CREATE, TABLE, <<"u">>, <<"(">>, <<"a">>, FLOAT, <<")">>, <<";">>>>),
      Join(<<INSERT, INTO, <<"t">>, VALUES, <<"(">>, <<"1">>, <<")">>, <<";">>>>),
      Join(<<INSERT, INTO, <<"t">>, VALUES, <<"(">>, <<"'","x","'">>, <<")">>, <<";">>>>),
      Join(<<INSERT, INTO, <<"t">>, VALUES, <<"(">>, <<"1">>, <<",">>, <<"'","x","'">>, <<")">>, <<";">>>>),
      Join(<<INSERT, INTO, <<"t">>, VALUES, <<"(">>, <<")">>, <<";">>>>),
      Join(<<SELECT, <<"*">>, FROM, <<"t">>, <<";">>>>),
      Join(<<SELECT, <<"b">>, FROM, <<"t">>, <<";">>>>),
      Join(<<SELECT, <<"*">>, FROM, <<"t">>, <<";">>, SELECT>>),
      <<" ">> \o Join(<<SELECT, <<"*">>>>) \o <<" ">>,
      Join(<<FROM, <<"t">>, <<";">>>>),
      Join(<<<<"S","E","L","E","C">>, <<";">>>>),
      <<"'", "a", ";">>,
      <<>> }

\* the try block of repl() once parse(sql) gave got and, if it gave a
\* statement, engine.execute gave done; left is what the buffer holds when
\* the except clause is reached
repl_outcome(db, got, done, left) ==
    IF got.err # NoError
    THEN [buffer |-> left, ran |-> TRUE, failed |-> TRUE, stmt |-> NoStmt,
          out |-> None, db |-> db, shown |-> Shown("Error", got.err.exc)]
    ELSE IF done.out.kind = "raise"
    THEN [buffer |-> left, ran |-> TRUE, failed |-> TRUE, stmt |-> got.stmt,
          out |-> done.out, db |-> done.db, shown |-> Shown("Error", done.out.exc)]
    ELSE [buffer |-> <<>>, ran |-> TRUE, failed |-> FALSE, stmt |-> got.stmt,
          out |-> done.out, db |-> done.db, shown |-> Shown(printed(done.out), "")]

\* stmt = parse(sql); result = engine.execute(stmt)
repl_parsed(db, got, left) == repl_outcome(db, got, execute(db, got.stmt), left)

\* mutant: the buffer is emptied only after a statement that succeeded
repl_line_keeps_buffer(text, db, line) ==
    LET buf == text \o Strip(line) \o <<" ">>
    IN  IF ~(\E i \in DOMAIN buf : buf[i] = ";")
        THEN [buffer |-> buf, ran |-> FALSE, failed |-> FALSE, stmt |-> NoStmt,
              out |-> None, db |-> db, shown |-> Shown("", "")]
        ELSE repl_parsed(db, parse(Strip(buf)), buf)

\* one pass of the loop of repl() after input() returned line: what the
\* buffer holds then, whether a statement was run, and what came of it
repl_line(text, db, line) ==
    LET buf == text \o Strip(line) \o <<" ">>
    IN  IF ~(\E i \in DOMAIN buf : buf[i] = ";")
        THEN [buffer |-> buf, ran |-> FALSE, failed |-> FALSE, stmt |-> NoStmt,
              out |-> None, db |-> db, shown |-> Shown("", "")]
        ELSE repl_parsed(db, parse(Strip(buf)), <<>>)

\* repl() up to the first prompt: a new Database, an empty buffer, the banner
InitRepl ==
    /\ EngineInit
    /\ ParseIdle
    /\ KVIdle
    /\ buffer = <<>>
    /\ pending = 0
    /\ session = "running"
    /\ shown = Shown("banner", "")

\* the loop body ran and gave step
Looped(step) ==
    /\ session = "running"
    /\ buffer' = step.buffer
    /\ session' = session
    /\ IF ~step.ran
       THEN /\ pending < MaxPending
            /\ pending' = pending + 1
            /\ op' = "readline"
            /\ UNCHANGED <<tables, stmt, result, inserted, repeated, shown>>
       ELSE /\ TotalRows(step.db) <= MaxRows
            /\ pending' = 0
            /\ shown' = step.shown
            /\ tables' = step.db
            /\ IF step.stmt = NoStmt
               THEN /\ op' = "parse_error"
                    /\ UNCHANGED <<stmt, result, inserted, repeated>>
               ELSE /\ op' = "execute"
                    /\ stmt' = step.stmt
                    /\ result' = step.out
                    /\ inserted' = Inserted(step.stmt, step)
                    /\ repeated' = (op = "execute" /\ stmt = step.stmt)
    /\ UNCHANGED <<parseVars, kvVars>>

\* input(prompt) returns line and the loop body runs
ReadLine(line) == Looped(repl_line(buffer, tables, line))

Read == \E line \in ReplLines : ReadLine(line)

\* input(prompt) raises EOFError: the loop ends
EndOfInput ==
    /\ session = "running"
    /\ session' = "ended"
    /\ op' = "eof"
    /\ UNCHANGED <<buffer, pending, shown>>
    /\ UNCHANGED <<tables, stmt, result, inserted, repeated>>
    /\ UNCHANGED <<parseVars, kvVars>>

NextRepl == Read \/ EndOfInput

SpecRepl == InitRepl /\ [][NextRepl]_vars

-----------------------------------------------------------------------------
(* What the caller sees *)

\* the dict a reference of a result list refers to, in the Database db
Deref(db, ref) == IF ref.stored THEN db[ref.key].rows[ref.idx] ELSE ref.row

\* an outcome by value: the rows as dicts, an error as it was raised
Outcome(db, out) ==
    [kind |-> out.kind, exc |-> out.exc, why |-> out.why, names |-> out.names,
     nums |-> out.nums, rows |-> [i \in DOMAIN out.rows |-> Deref(db, out.rows[i])]]

ResultRows == Outcome(tables, result).rows

Range(f) == {f[i] : i \in DOMAIN f}

Distinct(f) == \A i, j \in DOMAIN f : f[i] = f[j] => i = j

IsPrefix(p, q) == Len(p) <= Len(q) /\ \A i \in DOMAIN p : p[i] = q[i]

Executed(kind) == op = "execute" /\ stmt.kind = kind

-----------------------------------------------------------------------------
(* Claims *)

TKey == Lower(stmt.name)

\* C1: after SELECT * on a table declared with distinct column names, the
\* result has one row per successful insert into that table, in the order of
\* the inserts, and row j maps the i-th declared column to the i-th value of
\* the j-th insert and has no other entry.
RoundTrip ==
    (/\ Executed("SelectStmt") /\ stmt.select.none
     /\ TKey \in DOMAIN tables
     /\ Distinct(column_names(tables[TKey])))
    => LET t == tables[TKey]
       IN  /\ result.kind = "rows"
           /\ Len(ResultRows) = Len(inserted[TKey])
           /\ \A j \in DOMAIN ResultRows :
                 /\ Len(ResultRows[j]) = Len(t.columns)
                 /\ \A i \in DOMAIN t.columns :
                       /\ DictHas(ResultRows[j], t.columns[i].name)
                       /\ DictGet(ResultRows[j], t.columns[i].name) = inserted[TKey][j][i]

\* two different rows went into a two-column table beside another table, and
\* SELECT * has been executed on it
RoundTripReached ==
    /\ Executed("SelectStmt") /\ stmt.select.none
    /\ TKey \in DOMAIN tables
    /\ Distinct(column_names(tables[TKey]))
    /\ Len(tables[TKey].columns) = 2
    /\ Len(inserted[TKey]) = 2
    /\ inserted[TKey][1] # inserted[TKey][2]
    /\ Len(result.rows) = 2
    /\ Cardinality(DOMAIN tables) = 2

\* C2: an Insert succeeds exactly when the table exists under the lower-cased
\* name and the value count equals the column count; on success the target
\* table's rows are the previous rows plus one new last row and every other
\* table is unchanged.
InsertContract ==
    [][(op' = "execute" /\ stmt'.kind = "InsertStmt")
       => LET k == Lower(stmt'.name)
              ok == k \in DOMAIN tables /\ Len(stmt'.values) = Len(tables[k].columns)
          IN  /\ (result'.kind = "None") <=> ok
              /\ ~ok => result'.kind = "raise"
              /\ ok => /\ DOMAIN tables' = DOMAIN tables
                       /\ \A o \in DOMAIN tables \ {k} : tables'[o] = tables[o]
                       /\ tables'[k].name = tables[k].name
                       /\ tables'[k].columns = tables[k].columns
                       /\ Len(tables'[k].rows) = Len(tables[k].rows) + 1
                       /\ SubSeq(tables'[k].rows, 1, Len(tables[k].rows)) = tables[k].rows
      ]_vars

\* an Insert spelled T succeeded on table t, which had a row, beside table u
InsertAppended ==
    /\ Executed("InsertStmt") /\ result.kind = "None"
    /\ stmt.name = <<"T">>
    /\ <<"t">> \in DOMAIN tables /\ <<"u">> \in DOMAIN tables
    /\ tables[<<"t">>].name = <<"t">>
    /\ Len(tables[<<"t">>].rows) = 2

\* C3: a call of execute that raises leaves the Database as it was.
NoPartialMutation ==
    [][(op' = "execute" /\ result'.kind = "raise") => tables' = tables]_vars

\* an Insert of one value into a two-column table holding a row has failed
InsertCountMismatch ==
    /\ Executed("InsertStmt") /\ result.kind = "raise" /\ result.why = "count"
    /\ result.nums = <<2, 1>>
    /\ Len(tables[TKey].rows) >= 1

\* C4: create_table fails exactly when the lower-cased name is taken; then the
\* Database is unchanged; otherwise the new table, with the name and columns
\* as given and no rows, is added and the other tables are unchanged.
CreateContract ==
    [][(op' = "execute" /\ stmt'.kind = "CreateTableStmt")
       => LET k == Lower(stmt'.name)
          IN  /\ (result'.kind = "raise") <=> k \in DOMAIN tables
              /\ k \in DOMAIN tables
                    => /\ result'.exc = "ValueError" /\ result'.why = "exists"
                       /\ tables' = tables
              /\ k \notin DOMAIN tables
                    => /\ result'.kind = "None"
                       /\ DOMAIN tables' = DOMAIN tables \cup {k}
                       /\ tables'[k] = [name |-> stmt'.name, columns |-> stmt'.columns,
                                        rows |-> <<>>]
                       /\ \A o \in DOMAIN tables : tables'[o] = tables[o]
      ]_vars

\* CREATE TABLE T with other columns has failed on table t, which holds a row
CreateCollision ==
    /\ Executed("CreateTableStmt") /\ result.kind = "raise" /\ result.why = "exists"
    /\ stmt.name = <<"T">>
    /\ tables[<<"t">>].name = <<"t">>
    /\ tables[<<"t">>].columns # stmt.columns
    /\ Len(tables[<<"t">>].rows) >= 1

\* C5: every stored row has as many entries as its table has ColumnDefs, and
\* its keys are the declared column names.
RowsMatchColumns ==
    \A k \in DOMAIN tables : \A j \in DOMAIN tables[k].rows :
        /\ Len(tables[k].rows[j]) = Len(tables[k].columns)
        /\ Range(DictKeys(tables[k].rows[j])) = Range(column_names(tables[k]))

\* C6: a Select with a column list on an existing table raises exactly when a
\* requested name is not a column name; the error then names every requested
\* name that is missing and no rows are returned; the Database is unchanged.
SelectColumnsContract ==
    [][(/\ op' = "execute" /\ stmt'.kind = "SelectStmt" /\ ~stmt'.select.none
        /\ Lower(stmt'.name) \in DOMAIN tables)
       => LET t == tables[Lower(stmt'.name)]
              missing == Range(stmt'.select.list) \ Range(column_names(t))
          IN  /\ (result'.kind = "raise") <=> missing # {}
              /\ missing # {} => /\ result'.why = "unknown_columns"
                                 /\ Range(result'.names) = missing
                                 /\ result'.rows = <<>>
              /\ missing = {} => result'.kind = "rows"
              /\ tables' = tables
      ]_vars

\* a Select of two names has failed on a table that declares neither
SelectTwoMissing ==
    /\ Executed("SelectStmt") /\ result.kind = "raise"
    /\ result.why = "unknown_columns"
    /\ Len(stmt.select.list) = 2
    /\ Len(result.names) = 2 /\ result.names[1] # result.names[2]

\* C7: SELECT * returns rows whenever the table exists under the lower-cased
\* name, and otherwise raises the not-found KeyError.
SelectStarSucceeds ==
    (Executed("SelectStmt") /\ stmt.select.none)
    => IF TKey \in DOMAIN tables
       THEN result.kind = "rows"
       ELSE result.kind = "raise" /\ result.exc = "KeyError" /\ result.why = "not_found"

\* SELECT * FROM T has returned a row of table t, whose two columns share a name
SelectStarOnDuplicateColumns ==
    /\ Executed("SelectStmt") /\ stmt.select.none
    /\ result.kind = "rows" /\ Len(result.rows) >= 1
    /\ stmt.name = <<"T">> /\ tables[TKey].name = <<"t">>
    /\ ~Distinct(column_names(tables[TKey]))

\* C8: executing a Select leaves the Database unchanged, and a Select that
\* repeats the statement of the call before it has the outcome of that call.
SelectReadOnlyIdempotent ==
    [][(op' = "execute" /\ stmt'.kind = "SelectStmt")
       => /\ tables' = tables
          /\ repeated' => Outcome(tables', result') = Outcome(tables, result)
      ]_vars

\* the same Select has been executed twice in a row and returned two rows
SelectRepeated ==
    /\ Executed("SelectStmt") /\ repeated
    /\ result.kind = "rows" /\ Len(result.rows) = 2

\* C9: in every step each table stays, with its name and column list, and
\* its rows before the step are a prefix of its rows after it.
AppendOnly ==
    [][\A k \in DOMAIN tables :
          /\ k \in DOMAIN tables'
          /\ tables'[k].name = tables[k].name
          /\ tables'[k].columns = tables[k].columns
          /\ IsPrefix(tables[k].rows, tables'[k].rows)
      ]_vars

\* a second table was created and a second row inserted after the first
AppendOnlyReached ==
    /\ Cardinality(DOMAIN tables) = 2
    /\ \E k \in DOMAIN tables : Len(tables[k].rows) = 2
    /\ Executed("CreateTableStmt") /\ result.kind = "raise"

\* C10: a caller's assignment to a row it got from a Select changes the
\* outcome of no Select.
ReturnedRowsNotAliased ==
    [][op' = "caller"
       => \A s \in SelectStmts :
             Outcome(tables', execute(tables', s).out)
               = Outcome(tables, execute(tables, s).out)
      ]_vars

\* every spelling of name that differs from it in the case of letters only
CaseVariants(name) ==
    {s \in [DOMAIN name -> UNION {{LowerChar(name[i]), UpperChar(name[i])} : i \in DOMAIN name}] :
        Lower(s) = Lower(name)}

\* the keys of the tables whose name equals name case-insensitively
Named(db, name) == {k \in DOMAIN db : Lower(db[k].name) = Lower(name)}

\* C11: a table created with a name keeps exactly that spelling as its name
\* field; get_table resolves that table for every spelling that equals its
\* name case-insensitively; an Insert or a Select with such a spelling acts
\* on that table.
CaseInsensitiveNames ==
    /\ [](/\ (Executed("CreateTableStmt") /\ result = None)
             => \E k \in DOMAIN tables : tables[k].name = stmt.name
          /\ \A k \in DOMAIN tables :
                \A n \in CaseVariants(tables[k].name) :
                   get_table(tables, n) = [out |-> None, table |-> tables[k]]
          /\ Executed("SelectStmt")
             => \A k \in Named(tables, stmt.name) :
                   result = table_select(tables[k], stmt.select))
    /\ [][/\ \A k \in DOMAIN tables :
                k \in DOMAIN tables' /\ tables'[k].name = tables[k].name
          /\ (op' = "execute" /\ stmt'.kind = "InsertStmt")
             => \A k \in Named(tables, stmt'.name) :
                   LET done == insert_row(tables[k], stmt'.values)
                   IN  result' = done.out /\ tables' = [tables EXCEPT ![k] = done.table]
         ]_vars

\* a Select returned a row of a table through a spelling other than the one
\* the table was created with
OtherSpellingResolved ==
    /\ Executed("SelectStmt") /\ result.kind = "rows" /\ Len(result.rows) >= 1
    /\ TKey \in DOMAIN tables
    /\ tables[TKey].name # stmt.name

\* tokens are one complete statement, its optional semicolon included
CompleteStatement(tokens) ==
    LET got == parse_statement(tokens)
    IN  got.err = NoError /\ got.pos = Len(tokens) + 1

Semicolon == Token("SEMICOLON", <<";">>)

\* C12: when parse has tokenized its text: if the tokens begin with a complete
\* statement and its one optional semicolon and a token follows, parse raises
\* a SyntaxError that cites the text of that token and returns no statement;
\* when parse returns, it returns one CREATE TABLE, INSERT or SELECT
\* statement, and the same tokens with the trailing semicolon added or
\* dropped give the same statement.
OneStatementPerCall ==
    (pc = "done" /\ scanned.err = NoError)
    => LET ts == scanned.tokens
       IN  /\ \A n \in 1..(Len(ts) - 1) :
                 (/\ CompleteStatement(SubSeq(ts, 1, n))
                  /\ (ts[n].kind = "SEMICOLON" \/ ts[n + 1].kind # "SEMICOLON"))
                 => /\ parsed.err = Error("SyntaxError", "trailing_token", ts[n + 1].text, 0)
                    /\ parsed.stmt = NoStmt
           /\ parsed.err = NoError
              => /\ parsed.stmt.kind \in {"CreateTableStmt", "InsertStmt", "SelectStmt"}
                 /\ LET other == IF ts[Len(ts)].kind = "SEMICOLON"
                                 THEN SubSeq(ts, 1, Len(ts) - 1)
                                 ELSE Append(ts, Semicolon)
                    IN  /\ parse_tokens(other).err = NoError
                        /\ parse_tokens(other).stmt = parsed.stmt

\* parse failed on a text that holds a complete statement followed by another
SecondStatementRefused ==
    /\ pc = "done" /\ scanned.err = NoError
    /\ parsed.err.why = "trailing_token"
    /\ \E n \in 1..(Len(scanned.tokens) - 1) :
          /\ CompleteStatement(SubSeq(scanned.tokens, 1, n))
          /\ CompleteStatement(SubSeq(scanned.tokens, n + 1, Len(scanned.tokens)))

\* C13: whenever parse fails, it fails with a SyntaxError: for an unexpected
\* character, a wrong token, trailing tokens, and a column type keyword that
\* is not INT, TEXT or BOOL alike.
MalformedIsSyntaxError ==
    (pc = "done" /\ parsed.err # NoError) => parsed.err.exc = "SyntaxError"

\* C14: an execute call that raised nothing returned None for a CreateTable
\* or an Insert, and a list of rows, which is not None, for a Select; the
\* repl prints OK for the former and the formatted rows for the latter.
ResultTellsKind ==
    (op = "execute" /\ result.kind # "raise")
    => /\ stmt.kind \in {"CreateTableStmt", "InsertStmt"}
          => result = None /\ printed(result) = "OK"
       /\ stmt.kind = "SelectStmt"
          => result.kind = "rows" /\ result # None /\ printed(result) = "format_rows"

\* a Select succeeded and found no row
SelectFoundNoRow ==
    /\ Executed("SelectStmt") /\ result.kind = "rows" /\ result.rows = <<>>

\* the characters of the text that a token stands for
SourceText(tok) ==
    IF tok.kind = "STRING" THEN <<"'">> \o tok.text \o <<"'">> ELSE tok.text

\* from pos on, the text is the tokens from the i-th on, in order, with
\* whitespace between them only
RECURSIVE Covers(_, _, _, _)
Covers(text, pos, toks, i) ==
    IF pos <= Len(text) /\ IsSpace(text[pos]) THEN Covers(text, pos + 1, toks, i)
    ELSE IF i > Len(toks) THEN pos > Len(text)
    ELSE LET src == SourceText(toks[i])
         IN  /\ pos + Len(src) - 1 <= Len(text)
             /\ SubSeq(text, pos, pos + Len(src) - 1) = src
             /\ Covers(text, pos + Len(src), toks, i + 1)

\* C15: tokenize either raises a SyntaxError at the first position where no
\* pattern matches, or returns tokens that in order, with the whitespace
\* between them, make up the whole text, a STRING token standing for its text
\* between quotes; no token is whitespace; the empty text gives no token.
TokenizeTotal ==
    pc \in {"parse", "done"}
    => IF scanned.err # NoError
       THEN /\ scanned.err.exc = "SyntaxError"
            /\ scanned.err.at + 1 \in DOMAIN input
            /\ tokenize(SubSeq(input, 1, scanned.err.at)).err = NoError
            /\ ~TokenMatch(input, scanned.err.at + 1).ok
       ELSE /\ Covers(input, 1, scanned.tokens, 1)
            /\ \A i \in DOMAIN scanned.tokens : scanned.tokens[i].kind # "WS"
            /\ input = <<>> => scanned.tokens = <<>>

\* the spelling of a ColumnType
TypeName(c) == CASE c = "INT" -> INT [] c = "TEXT" -> TEXT [] c = "BOOL" -> BOOL

IsWord(tok, word) == tok.kind = "IDENT" /\ Upper(tok.text) = word

\* the tokens without their one trailing semicolon
Unterminated(ts) ==
    IF ts # <<>> /\ ts[Len(ts)].kind = "SEMICOLON" THEN SubSeq(ts, 1, Len(ts) - 1) ELSE ts

\* ts begins CREATE TABLE name ( and goes on with k column declarations, a
\* name and a type keyword each, with a comma between one and the next
CreateWithColumns(ts, k) ==
    /\ Len(ts) >= 3 * k + 4
    /\ IsWord(ts[1], CREATE) /\ IsWord(ts[2], TABLE)
    /\ ts[3].kind = "IDENT" /\ ts[4].kind = "LPAREN"
    /\ \A i \in 1..k :
          /\ ts[3 * i + 2].kind = "IDENT"
          /\ ts[3 * i + 3].kind = "IDENT"
          /\ \E c \in ColumnType : Upper(ts[3 * i + 3].text) = TypeName(c)
          /\ i < k => ts[3 * i + 4].kind = "COMMA"

\* C16: a CREATE TABLE with k >= 1 column declarations parses to a
\* CreateTableStmt with the table name as written and k ColumnDefs, the i-th
\* with the i-th declared name as written and the ColumnType its keyword
\* spells in any case; with no declaration, or with a comma before the
\* closing parenthesis, parse fails.
CreateColumnsInOrder ==
    (pc = "done" /\ scanned.err = NoError)
    => LET ts == Unterminated(scanned.tokens)
       IN  /\ \A k \in 1..Len(ts) :
                 (CreateWithColumns(ts, k) /\ Len(ts) = 3 * k + 4 /\ ts[3 * k + 4].kind = "RPAREN")
                 => /\ parsed.err = NoError
                    /\ parsed.stmt.kind = "CreateTableStmt"
                    /\ parsed.stmt.name = ts[3].text
                    /\ Len(parsed.stmt.columns) = k
                    /\ \A i \in 1..k :
                          /\ parsed.stmt.columns[i].name = ts[3 * i + 2].text
                          /\ TypeName(parsed.stmt.columns[i].col_type) = Upper(ts[3 * i + 3].text)
           /\ \A k \in 1..Len(ts) :
                 (/\ CreateWithColumns(ts, k) /\ Len(ts) = 3 * k + 5
                  /\ ts[3 * k + 4].kind = "COMMA" /\ ts[3 * k + 5].kind = "RPAREN")
                 => parsed.err # NoError
           /\ (CreateWithColumns(ts, 0) /\ Len(ts) = 5 /\ ts[5].kind = "RPAREN")
              => parsed.err # NoError

\* a CREATE TABLE with two declarations, the second with a name in mixed case
\* and a type keyword in lower case, has been parsed
TwoColumnsParsed ==
    /\ pc = "done" /\ parsed.err = NoError
    /\ parsed.stmt.kind = "CreateTableStmt"
    /\ Len(parsed.stmt.columns) = 2
    /\ parsed.stmt.columns[2] = ColumnDef(<<"B","_","2">>, "TEXT")
    /\ scanned.tokens[9].text = Lower(TEXT)

\* d1 == d2 of two dicts: the same keys with the same values
SameMapping(d1, d2) ==
    /\ \A i \in DOMAIN d1 : DictHas(d2, d1[i].k) /\ DictGet(d2, d1[i].k) = d1[i].v
    /\ \A i \in DOMAIN d2 : DictHas(d1, d2[i].k)

\* a rollback has just ended the transaction that was open
RolledBack == call.op = "rollback" /\ hist.state = "rolled_back" /\ hist.closing

\* C17: right after the rollback of an open transaction, during which only
\* set, delete and clear changed the mapping, the dict of the instance is the
\* dict it was at begin_transaction, the mapping the file holds is the mapping
\* the file held at begin_transaction, and no transaction is open.
RollbackRestoresSnapshot ==
    RolledBack
    => /\ SameMapping(data, hist.data)
       /\ SameMapping(load(file), hist.loaded)
       /\ transaction_data.none

\* a rollback brought back a deleted key with the value it had, and removed
\* a key added since begin_transaction
RollbackUndidChanges ==
    /\ RolledBack
    /\ \E k \in KVKeys : DictHas(data, k) /\ ~DictHas(hist.undone, k)
    /\ \E k \in KVKeys : ~DictHas(data, k) /\ DictHas(hist.undone, k)

\* C18: after every call, also while a transaction is open, a new instance
\* opened on the same file holds the mapping that this instance holds.
NewInstanceHoldsSameMapping == SameMapping(new(file).data, data)

\* C19: right after the commit of an open transaction the dict is the dict
\* the calls before the commit produced and no transaction is open; a
\* rollback called after a commit, with no begin_transaction in between,
\* changes neither the dict nor the snapshot nor the file.
CommitKeepsChanges ==
    /\ []((call.op = "commit" /\ hist.state = "committed" /\ hist.closing)
          => /\ data = hist.undone
             /\ transaction_data.none)
    /\ [][(call'.op = "rollback" /\ hist.state = "committed")
          => UNCHANGED <<data, transaction_data, file>>
         ]_vars

\* rollback was called after the commit of a transaction that had changed
\* the dict
RollbackAfterCommit ==
    /\ call.op = "rollback" /\ hist.state = "committed" /\ hist.changed
    /\ data # <<>>

\* the types the JSON encoder writes
JsonTypes == {"None", "bool", "int", "str", "list", "tuple"}

\* C20: a set call whose key is no str, or whose value is of a type the JSON
\* encoder does not write, raises ValueError and changes neither the dict nor
\* the snapshot nor the file; any other set call returns, after it get(key)
\* gives the value, and every other key is present or absent as before with
\* the value it had.
SetContract ==
    [][call'.op = "set"
       => IF call'.key.tag # "str" \/ call'.value.tag \notin JsonTypes
          THEN /\ call'.ret = Raised("ValueError")
               /\ UNCHANGED <<data, transaction_data, file>>
          ELSE /\ call'.ret = Return(PyNone)
               /\ get(Self(data', transaction_data', file'), call'.key, PyNone).ret
                    = Return(call'.value)
               /\ \A k \in (KVKeys \cup BadKeys) \ {call'.key} :
                     /\ DictHas(data', k) = DictHas(data, k)
                     /\ DictHas(data, k) => DictGet(data', k) = DictGet(data, k)
      ]_vars

\* a set call with a value that cannot be written was refused while a
\* transaction was open whose snapshot differs from the dict
SetRefusedInTransaction ==
    /\ call.op = "set" /\ call.ret = Raised("ValueError")
    /\ call.key.tag = "str" /\ call.value.tag = "set"
    /\ ~transaction_data.none
    /\ transaction_data.data # data
    /\ data # <<>>

\* C21: a delete call returns True exactly when the key was in the dict
\* before it; after it exists(key) is False, size() is one less when True was
\* returned and the same otherwise, and every other key is present or absent
\* as before with the value it had.
DeleteContract ==
    [][call'.op = "delete"
       => LET before == Self(data, transaction_data, file)
              after == Self(data', transaction_data', file')
              key == call'.key
          IN  /\ call'.ret = Return(PyBool(DictHas(data, key)))
              /\ exists(after, key).ret = Return(PyBool(FALSE))
              /\ size(after).ret.value.num
                   = size(before).ret.value.num
                       - (IF call'.ret = Return(PyBool(TRUE)) THEN 1 ELSE 0)
              /\ \A k \in KVKeys \ {key} :
                    /\ DictHas(data', k) = DictHas(data, k)
                    /\ DictHas(data, k) => DictGet(data', k) = DictGet(data, k)
      ]_vars

\* a delete removed one key of two
DeletedOneOfTwo ==
    /\ call.op = "delete" /\ call.ret = Return(PyBool(TRUE))
    /\ Len(data) = 1
    /\ ~DictHas(data, call.key)

\* the names of a list without the repetitions, in the order of their first
\* occurrence
RECURSIVE FirstOccurrences(_)
FirstOccurrences(names) ==
    IF names = <<>> THEN <<>>
    ELSE LET front == FirstOccurrences(SubSeq(names, 1, Len(names) - 1))
             last == names[Len(names)]
         IN  IF last \in Range(front) THEN front ELSE Append(front, last)

\* C22: a Select with a column list that returned rows returned one row per
\* stored row, in the order of the stored rows; each is a dict of its own,
\* keyed by the requested names in the order of their first request, a name
\* requested twice being one key, and holds the stored row's values.
ProjectionContract ==
    (Executed("SelectStmt") /\ ~stmt.select.none /\ result.kind = "rows")
    => LET t == tables[TKey]
       IN  /\ Len(result.rows) = Len(t.rows)
           /\ \A j \in DOMAIN result.rows :
                 /\ ~result.rows[j].stored
                 /\ DictKeys(ResultRows[j]) = FirstOccurrences(stmt.select.list)
                 /\ \A c \in Range(stmt.select.list) :
                       DictGet(ResultRows[j], c) = DictGet(t.rows[j], c)

\* a Select of the same column twice returned a row with that one key
DuplicateRequestCollapsed ==
    /\ Executed("SelectStmt") /\ result.kind = "rows" /\ Len(result.rows) >= 1
    /\ stmt.select.list = <<<<"a">>, <<"a">>>>
    /\ DictKeys(ResultRows[1]) = <<<<"a">>>>

\* C23: every value stored in a table by a statement that went through parse
\* and execute is a non-negative integer or a text, never null.
\* A quoted string is stored as None (the STRING token's text, see C15).
StoredValuesAreIntOrText ==
    \A k \in DOMAIN tables : \A i \in DOMAIN tables[k].rows :
        \A e \in DOMAIN tables[k].rows[i] :
            LET v == tables[k].rows[i][e].v
            IN  \/ v.tag = "int" /\ v.num >= 0
                \/ v.tag = "text"

\* statements that are valid at some point of a session
ValidLines ==
    { Join(<<CREATE, TABLE, <<"t">>, <<"(">>, <<"a">>, INT, <<")">>, <<";">>>>),
      Join(<<INSERT, INTO, <<"t">>, VALUES, <<"(">>, <<"1">>, <<")">>, <<";">>>>),
      Join(<<SELECT, <<"*">>, FROM, <<"t">>, <<";">>>>) }

\* the loop body ran a statement and it failed
FailedStatement == op \in {"parse_error", "execute"} /\ shown.kind = "Error"

\* C24: a line that completes a statement which fails in tokenize, parse or
\* execute leaves the session running, the buffer empty and the Database as
\* it was; a valid statement entered next does what it does on that Database
\* with nothing buffered.
ErrorRecovery ==
    /\ []((session = "running" /\ FailedStatement)
          => \A next \in ValidLines :
                repl_line(buffer, tables, next) = repl_line(<<>>, tables, next))
    /\ [][FailedStatement'
          => /\ session' = "running"
             /\ buffer' = <<>>
             /\ pending' = 0
             /\ tables' = tables
      ]_vars

\* a statement typed over two lines failed to parse while the table held a
\* row: the session goes on with an empty buffer
FailedStatementRecovered ==
    /\ session = "running"
    /\ op = "parse_error"
    /\ shown = Shown("Error", "SyntaxError")
    /\ buffer = <<>>
    /\ TotalRows(tables) = 1

\* C25: the columns of a created table never change, whatever the caller
\* does to the statement object afterwards and whatever is executed later.
\* create_table keeps the statement's own list, so the caller's append
\* changes the table.
ColumnsFixedAtCreation ==
    [][\A k \in DOMAIN tables :
          k \in DOMAIN tables' /\ tables'[k].columns = tables[k].columns]_vars

\* the requested names that no column declares as spelled, though a column
\* has the name in another letter case
OffCase(table, names) ==
    SelectSeq(names,
              LAMBDA c : /\ c \notin Range(column_names(table))
                         /\ \E d \in Range(column_names(table)) : Lower(d) = Lower(c))

\* C26: a Select that names an existing table in any letter case finds the
\* table, and a requested column that differs from a declared column only in
\* letter case makes it fail with the unknown-column error naming that column.
ColumnNamesCaseSensitive ==
    (Executed("SelectStmt") /\ Lower(stmt.name) \in DOMAIN tables)
    => LET table == tables[Lower(stmt.name)]
           off == OffCase(table, stmt.select.list)
       IN  /\ result.why # "not_found"
           /\ (~stmt.select.none /\ off # <<>>)
              => /\ result.kind = "raise"
                 /\ result.exc = "KeyError"
                 /\ result.why = "unknown_columns"
                 /\ Range(off) \subseteq Range(result.names)

\* SELECT A, b on the table created as (a, b), named in another letter case
\* than it was created with: the error names A only
OffCaseColumnRejected ==
    /\ Executed("SelectStmt")
    /\ Lower(stmt.name) \in DOMAIN tables
    /\ tables[Lower(stmt.name)].name # stmt.name
    /\ column_names(tables[Lower(stmt.name)]) = <<<<"a">>, <<"b">>>>
    /\ stmt.select = SomeList(<<<<"A">>, <<"b">>>>)
    /\ result = Raise("KeyError", "unknown_columns", <<<<"A">>>>, <<>>)

\* the column lists that declare the same names with any types and flags
Redeclared(columns) ==
    LET Decl == [col_type : {"INT", "TEXT", "BOOL"}, nullable : BOOLEAN,
                 primary_key : BOOLEAN]
    IN  {[i \in DOMAIN columns |->
             [name |-> columns[i].name, col_type |-> d[i].col_type,
              nullable |-> d[i].nullable, primary_key |-> d[i].primary_key]] :
         d \in [DOMAIN columns -> Decl]}

\* the last of the values given for the columns called name
LastGiven(columns, values, name) ==
    values[CHOOSE i \in DOMAIN columns :
              /\ columns[i].name = name
              /\ \A j \in DOMAIN columns : columns[j].name = name => j <= i]

\* C27: an Insert succeeds exactly when the table exists and as many values
\* are given as the table has columns; the new row holds the given values as
\* they are; and insert_row does the same to the table whatever types and
\* flags its columns declare.
InsertUnchecked ==
    Executed("InsertStmt")
    => LET key == Lower(stmt.name)
       IN  /\ result = None
              <=> (key \in DOMAIN tables
                   /\ Len(stmt.values) = Len(tables[key].columns))
           /\ result = None
              => LET table == tables[key]
                     row == table.rows[Len(table.rows)]
                 IN  /\ Range(DictKeys(row)) = Range(column_names(table))
                     /\ \A n \in Range(DictKeys(row)) :
                           DictGet(row, n) = LastGiven(table.columns, stmt.values, n)
           /\ key \in DOMAIN tables
              => \A cs \in Redeclared(tables[key].columns) :
                    LET as_is == insert_row(tables[key], stmt.values)
                        other == insert_row([tables[key] EXCEPT !.columns = cs], stmt.values)
                    IN  /\ other.out = as_is.out
                        /\ other.table.rows = as_is.table.rows

\* two rows with the same text in the column declared INT, primary key and
\* not nullable
TextTwiceInKeyColumn ==
    /\ Executed("InsertStmt")
    /\ result = None
    /\ tables[Lower(stmt.name)].columns = <<ColKey>>
    /\ tables[Lower(stmt.name)].rows = <<DictSet(<<>>, <<"a">>, Ex), DictSet(<<>>, <<"a">>, Ex)>>

\* C28: begin_transaction always makes the current mapping the one snapshot,
\* also while a transaction is open; a rollback of an open transaction
\* restores the mapping of the most recent begin_transaction and drops the
\* snapshot; a rollback or commit after a rollback changes nothing.
OneSnapshot ==
    /\ [][call'.op = "begin_transaction"
          => /\ transaction_data' = Snapshot(data)
             /\ data' = data
             /\ file' = file
       ]_vars
    /\ [][(call'.op = "rollback" /\ hist.state = "open")
          => /\ data' = hist.data
             /\ transaction_data' = NoSnapshot
       ]_vars
    /\ [][(call'.op \in {"rollback", "commit"} /\ hist.state = "rolled_back")
          => UNCHANGED <<data, transaction_data, file>>
       ]_vars

\* the mapping was changed between two begin_transaction calls and again
\* after the second; the rollback gave back the mapping of the second
NestedBeginRolledBack ==
    /\ call.op = "rollback"
    /\ hist.state = "rolled_back" /\ hist.closing
    /\ hist.nested /\ hist.changed
    /\ data = hist.data
    /\ transaction_data = NoSnapshot

====
